---------------------------- MODULE Spec2Model ----------------------------
(***************************************************************************)
(* Custom-property cascade and var() substitution of                       *)
(* components/style/custom_properties.rs.                                  *)
(*                                                                         *)
(* A CSS text is a sequence of tokens, each token written as its source    *)
(* text.  A slice of the parser input is a SubSeq of that sequence and a   *)
(* SourcePosition is an index into it.  Maps are functions whose DOMAIN is *)
(* the set of keys; an Option is a record with a `some` flag.              *)
(***************************************************************************)
EXTENDS Naturals, Sequences, FiniteSets, TLC

VARIABLES
    pc,                  \* which operation of the element's cascade runs next
    inherited,           \* Option<ComputedValuesMap> of the parent
    custom_properties,   \* Option<HashMap<Name, BorrowedSpecifiedValue>>
    seen,                \* HashSet<Name> shared by the cascade calls
    calls,               \* how many cascade calls were made for the element
    first_decl,          \* history: per name, the declared value of its first call
    specified0,          \* the specified map handed to finish_cascade
    rc_keys,             \* remove_cycles: keys of map.keys() not yet iterated
    stack,               \* remove_cycles: the DFS stack
    frames,              \* remove_cycles: per stack entry, references not yet iterated
    visited,             \* remove_cycles: visited
    to_remove,           \* remove_cycles: to_remove
    sub_keys,            \* substitute_all: keys of the map not yet iterated
    computed_values_map, \* substitute_all: computed_values_map
    invalid,             \* substitute_all: invalid
    bodies,              \* history: per name, how often substitute_one ran its body
    deepest,             \* history: the longest chain of nested substitute_one calls
    noted,               \* history: what the pushes and the failed callbacks left
    result,              \* the Option<ComputedValuesMap> finish_cascade returned
    s_input,             \* substitute: input
    s_first,             \* substitute: first_token_type
    s_map,               \* substitute: computed_values_map
    s_result,            \* substitute: the Result<String, ()> returned
    p_input,             \* parse: the input text
    p_result,            \* parse: the Result<SpecifiedValue, ()> returned
    n_input,             \* parse_name: the string s
    n_result             \* parse_name: the Result<&str, ()> returned

vars == <<pc, inherited, custom_properties, seen, calls, first_decl, specified0, rc_keys, stack,
          frames, visited, to_remove, sub_keys, computed_values_map, invalid, bodies,
          deepest, noted, result, s_input, s_first, s_map, s_result, p_input, p_result, n_input,
          n_result>>

-----------------------------------------------------------------------------
(* Names and tokens *)

\* The custom property names an element declares (without the -- prefix).
Names == {"a", "b", "c"}

\* Every name a var() function of the model can mention; "x" is never declared.
AllNames == Names \cup {"x"}

\* The characters of an identifier token.
IdentChars(tok) ==
    CASE tok = "--a" -> <<"-", "-", "a">>
      [] tok = "--b" -> <<"-", "-", "b">>
      [] tok = "--c" -> <<"-", "-", "c">>
      [] tok = "--x" -> <<"-", "-", "x">>
      [] tok = "em" -> <<"e", "m">>
      [] tok = "red" -> <<"r", "e", "d">>
      [] tok = "color" -> <<"c", "o", "l", "o", "r">>
      [] tok = "x" -> <<"x">>
      [] OTHER -> <<>>

\* The identifier token that writes var()'s first argument for a name.
VarIdent(name) ==
    CASE name = "a" -> "--a"
      [] name = "b" -> "--b"
      [] name = "c" -> "--c"
      [] OTHER -> "--x"

\* Atom::from_slice: the interned name with these characters.
AtomFromSlice(chars) ==
    IF \E n \in AllNames : <<n>> = chars
    THEN CHOOSE n \in AllNames : <<n>> = chars
    ELSE "?"     \* any other name

IdentTokens == {"--a", "--b", "--c", "--x", "em", "red", "color", "x"}

\* Token::serialization_type of the tokens of the model.
SerializationType(tok) ==
    CASE tok \in IdentTokens -> "Ident"
      [] tok = "var(" -> "Function"
      [] tok = "(" -> "OpenParen"
      [] tok = " " -> "WhiteSpace"
      [] tok = "1" -> "Number"
      [] tok = "+" -> "DelimDotOrPlus"
      [] tok = "/**/" -> "DelimSlash"
      [] OTHER -> "Other"     \* ) , : ; !

\* TokenSerializationType::needs_separator_when_before
NeedsSeparatorWhenBefore(self, other) ==
    CASE self = "Ident" ->
            other \in {"Ident", "Function", "UrlOrBadUrl", "DelimMinus", "Number",
                       "Percentage", "Dimension", "UnicodeRange", "CDC", "OpenParen"}
      [] self \in {"AtKeywordOrHash", "Dimension"} ->
            other \in {"Ident", "Function", "UrlOrBadUrl", "DelimMinus", "Number",
                       "Percentage", "Dimension", "UnicodeRange", "CDC"}
      [] self \in {"DelimHash", "DelimMinus", "Number"} ->
            other \in {"Ident", "Function", "UrlOrBadUrl", "DelimMinus", "Number",
                       "Percentage", "Dimension", "UnicodeRange"}
      [] self = "DelimDotOrPlus" -> other \in {"Number", "Percentage", "Dimension"}
      [] self = "DelimSlash" -> other \in {"DelimAsterisk", "SubstringMatch"}
      [] OTHER -> FALSE

\* TokenSerializationType::set_if_nothing
SetIfNothing(self, new_value) == IF self = "Nothing" THEN new_value ELSE self

IsOpener(tok) == tok \in {"var(", "("}

\* The index of the ")" that closes the block opened just before index j.
RECURSIVE ScanClose(_, _, _)
ScanClose(toks, j, depth) ==
    IF j > Len(toks) THEN j
    ELSE IF IsOpener(toks[j]) THEN ScanClose(toks, j + 1, depth + 1)
    ELSE IF toks[j] = ")" THEN (IF depth = 0 THEN j ELSE ScanClose(toks, j + 1, depth - 1))
    ELSE ScanClose(toks, j + 1, depth)

\* Parser::parse_nested_block: the end of the block whose opening token is at i.
BlockEnd(toks, i) == ScanClose(toks, i + 1, 0)

\* Parser::next (skipping whitespace and comments): the index of the next token
\* at or after j, or stop when the block is exhausted.
RECURSIVE SkipWhitespace(_, _, _)
SkipWhitespace(toks, j, stop) ==
    IF j < stop /\ toks[j] \in {" ", "/**/"} THEN SkipWhitespace(toks, j + 1, stop) ELSE j

-----------------------------------------------------------------------------
(* parse_name *)

\* A fault: one leading dash is taken for the prefix.
ParseNameOneDash(s) ==
    IF Len(s) >= 1 /\ s[1] = "-"
    THEN [ok |-> TRUE, v |-> SubSeq(s, 2, Len(s))]
    ELSE [ok |-> FALSE, v |-> <<>>]

ParseName(s) ==
    IF Len(s) >= 2 /\ s[1] = "-" /\ s[2] = "-"
    THEN [ok |-> TRUE, v |-> SubSeq(s, 3, Len(s))]
    ELSE [ok |-> FALSE, v |-> <<>>]

-----------------------------------------------------------------------------
(* ComputedValue *)

ComputedValue(css, first, last) ==
    [css |-> css, first_token_type |-> first, last_token_type |-> last]

Empty == ComputedValue(<<>>, "Nothing", "Nothing")

\* A fault: the separator is written before every pushed text.
PushAlwaysSeparates(self, css, css_first_token_type, css_last_token_type) ==
    [css |-> self.css \o <<"/**/">> \o css,
     first_token_type |-> SetIfNothing(self.first_token_type, css_first_token_type),
     last_token_type |-> css_last_token_type]

Push(self, css, css_first_token_type, css_last_token_type) ==
    [css |-> self.css
             \o (IF NeedsSeparatorWhenBefore(self.last_token_type, css_first_token_type)
                 THEN <<"/**/">> ELSE <<>>)
             \o css,
     first_token_type |-> SetIfNothing(self.first_token_type, css_first_token_type),
     last_token_type |-> css_last_token_type]

\* position = <<SourcePosition, TokenSerializationType>>; the slice runs to `to`.
PushFrom(self, position, toks, to, last_token_type) ==
    Push(self, SubSeq(toks, position[1], to - 1), position[2], last_token_type)

PushVariable(self, variable) ==
    Push(self, variable.css, variable.first_token_type, variable.last_token_type)

-----------------------------------------------------------------------------
(* parse: the declaration value grammar and the references it collects *)

Some(v) == [some |-> TRUE, v |-> v]

ParseErr == [ok |-> FALSE, first |-> "Nothing", last |-> "Nothing",
             references |-> [some |-> FALSE, v |-> {}], pos |-> 0]

\* Parser::parse_until_before(Delimiter::Bang | Delimiter::Semicolon): the index of
\* the first `!` or `;` of this block at or after j, or stop.
RECURSIVE DelimiterIndex(_, _, _)
DelimiterIndex(toks, j, stop) ==
    IF j >= stop THEN stop
    ELSE IF toks[j] \in {"!", ";"} THEN j
    ELSE IF IsOpener(toks[j])
         THEN (IF BlockEnd(toks, j) >= stop THEN stop
               ELSE DelimiterIndex(toks, BlockEnd(toks, j) + 1, stop))
    ELSE DelimiterIndex(toks, j + 1, stop)

RECURSIVE SkipComments(_, _, _)
SkipComments(toks, j, stop) ==
    IF j < stop /\ toks[j] = "/**/" THEN SkipComments(toks, j + 1, stop) ELSE j

RECURSIVE ParseDeclarationValue(_, _, _, _)
RECURSIVE ParseDeclarationValueBlock(_, _, _, _, _, _)
RECURSIVE ParseVarFunction(_, _, _, _)

ParseDeclarationValue(toks, pos, stop, references) ==
    LET until == DelimiterIndex(toks, pos, stop) IN
    \* Need at least one token
    IF SkipComments(toks, pos, until) >= until THEN ParseErr
    ELSE ParseDeclarationValueBlock(toks, pos, until, "Nothing", "Nothing", references)

\* One iteration of the `while let Ok(token)` loop, at index pos of the block that
\* ends at stop, with the loop's first_token_type and last_token_type so far.
ParseDeclarationValueBlock(toks, pos, stop, first_token_type, last_token_type, references) ==
    IF pos >= stop
    THEN [ok |-> TRUE, first |-> first_token_type, last |-> last_token_type,
          references |-> references, pos |-> stop]
    ELSE
    LET token == toks[pos]
        first == SetIfNothing(first_token_type, SerializationType(token))
        last == SerializationType(token)
        close == BlockEnd(toks, pos)
        after == IF close > Len(toks) THEN close ELSE close + 1
    IN
    IF token \in {"bad-url", "bad-string", ")", "]", "}"} THEN ParseErr
    ELSE IF token = "var(" THEN
        LET r == ParseVarFunction(toks, pos + 1, close, references) IN
        \* parse_nested_block: the closure's error, or input left unconsumed
        IF ~r.ok \/ SkipWhitespace(toks, r.pos, close) < close THEN ParseErr
        ELSE ParseDeclarationValueBlock(toks, after, stop, first, last, r.references)
    ELSE IF IsOpener(token) THEN
        LET r == ParseDeclarationValueBlock(toks, pos + 1, close, "Nothing", "Nothing",
                                            references) IN
        IF ~r.ok THEN ParseErr
        ELSE ParseDeclarationValueBlock(toks, after, stop, first, last, r.references)
    ELSE ParseDeclarationValueBlock(toks, pos + 1, stop, first, last, references)

ParseVarFunction(toks, pos, stop, references) ==
    LET i == SkipWhitespace(toks, pos, stop) IN
    \* input.expect_ident()
    IF i >= stop \/ toks[i] \notin IdentTokens THEN ParseErr
    ELSE
    LET name == ParseName(IdentChars(toks[i]))
        j == SkipWhitespace(toks, i + 1, stop)
        \* input.expect_comma() consumes the token it looks at
        comma == j < stop /\ toks[j] = ","
        fallback == ParseDeclarationValue(toks, j + 1, stop, references)
        refs == IF comma THEN fallback.references ELSE references
    IN
    IF ~name.ok THEN ParseErr
    ELSE IF comma /\ ~fallback.ok THEN ParseErr
    ELSE [ok |-> TRUE, first |-> "Nothing", last |-> "Nothing",
          references |-> IF refs.some
                         THEN Some(refs.v \cup {AtomFromSlice(name.v)}) ELSE refs,
          \* a token that is no comma stays consumed, and with it the block it opens
          pos |-> IF comma THEN fallback.pos
                  ELSE IF j >= stop THEN j
                  ELSE IF IsOpener(toks[j])
                  THEN (IF BlockEnd(toks, j) > Len(toks) THEN BlockEnd(toks, j)
                        ELSE BlockEnd(toks, j) + 1)
                  ELSE j + 1]

\* SpecifiedValue
SpecifiedValue(css, first, last, references) ==
    [css |-> css, first_token_type |-> first, last_token_type |-> last,
     references |-> references]

Parse(toks) ==
    LET r == ParseDeclarationValue(toks, 1, Len(toks) + 1, Some({})) IN
    IF r.ok
    THEN [ok |-> TRUE,
          v |-> SpecifiedValue(SubSeq(toks, 1, r.pos - 1), r.first, r.last, r.references.v)]
    ELSE [ok |-> FALSE, v |-> SpecifiedValue(<<>>, "Nothing", "Nothing", {})]

-----------------------------------------------------------------------------
(* Maps *)

EmptyMap == [n \in {} |-> Empty]

None == [some |-> FALSE, v |-> EmptyMap]

MapInsert(map, key, value) ==
    [n \in DOMAIN map \cup {key} |-> IF n = key THEN value ELSE map[n]]

MapRemove(map, keys) == [n \in DOMAIN map \ keys |-> map[n]]

\* BorrowedSpecifiedValue; references is an Option<&HashSet<Name>>
BorrowedSpecifiedValue(css, first, last, references) ==
    [css |-> css, first_token_type |-> first, last_token_type |-> last,
     references |-> references]

NoReferences == [some |-> FALSE, v |-> {}]

-----------------------------------------------------------------------------
(* substitute_block, substitute_one, substitute *)

\* What the substitute_one callback closes over: for substitute_all the specified
\* map and the inherited map (mode "all"), for substitute the computed map
\* (mode "substitute").
EnvAll(specified_values_map, inherited_map) ==
    [mode |-> "all", specified |-> specified_values_map, inherited |-> inherited_map,
     map |-> None]

EnvSubstitute(computed_map) ==
    [mode |-> "substitute", specified |-> EmptyMap, inherited |-> None,
     map |-> computed_map]

\* The mutable state the callback borrows: computed_values_map and invalid.
\* NoBodies and the fields bodies, depth and deepest are history: how often each
\* name's body ran, how many substitute_one calls are on the call stack, and the
\* most there ever were.  NoNotes and the field noted are history too: whether a
\* callback of substitute_block returned Err, whether one that did left the
\* accumulator other than it found it, and for every push what the accumulator
\* was like afterwards (is its css empty, is its first_token_type nothing).
NoBodies == [n \in AllNames |-> 0]

NoNotes == [failed |-> FALSE, clobbered |-> FALSE, pushed |-> {}]

Memo(cvm, inv) ==
    [computed_values_map |-> cvm, invalid |-> inv, bodies |-> NoBodies, depth |-> 0,
     deepest |-> 0, noted |-> NoNotes]

\* History: the accumulator a call of push has just left.
Pushed(memo, accumulator) ==
    [memo EXCEPT !.noted.pushed =
        @ \cup {<<accumulator.css = <<>>, accumulator.first_token_type = "Nothing">>}]

\* History: the callback, called with the accumulator `before`, has returned r.
Returned(before, r) ==
    IF r.ok THEN r
    ELSE [r EXCEPT !.memo.noted.failed = TRUE,
                   !.memo.noted.clobbered = @ \/ r.partial # before]

\* The call stack depth at which the evaluation of a call chain is abandoned: more
\* nested substitute_one calls than there are names, so a name is being
\* substituted inside its own substitution and the chain never ends.
DepthLimit == Cardinality(AllNames) + 1

\* A fault: computed_values_map is never consulted.
MemoGetNever(memo, name) == [some |-> FALSE, v |-> Empty]

\* computed_values_map.get(name)
MemoGet(memo, name) ==
    IF name \in DOMAIN memo.computed_values_map
    THEN Some(memo.computed_values_map[name])
    ELSE [some |-> FALSE, v |-> Empty]

BlockErr(position, partial, memo) ==
    [ok |-> FALSE, last |-> "Nothing", position |-> position, partial |-> partial,
     memo |-> memo]

NoPartial == [some |-> FALSE, v |-> Empty]

RECURSIVE SubstituteBlockLoop(_, _, _, _, _, _, _, _, _)
RECURSIVE SubstituteOne(_, _, _, _, _)
RECURSIVE Callback(_, _, _, _)

\* A fault: the fallback is taken to start after its first token.
FallbackPositionAfterFirstToken(toks, comma) ==
    <<comma + 2, SerializationType(toks[comma + 1])>>

\* After expect_comma: the position of the fallback and the serialization type of
\* its first token (whitespace and comments included).
FallbackPosition(toks, comma) == <<comma + 1, SerializationType(toks[comma + 1])>>

\* A fault: the inherited value is never looked up.
InheritedValueNever(inherited_map, name) == [some |-> FALSE, v |-> Empty]

\* inherited.as_ref().and_then(|i| i.get(name))
InheritedValue(inherited_map, name) ==
    IF inherited_map.some /\ name \in DOMAIN inherited_map.v
    THEN Some(inherited_map.v[name])
    ELSE [some |-> FALSE, v |-> Empty]

\* A fault: the block is left unread, for the caller to push as it stands.
SubstituteBlockUnread(toks, pos, stop, position, partial_computed_value, env, memo) ==
    [ok |-> TRUE, last |-> "Nothing", position |-> position,
     partial |-> partial_computed_value, memo |-> memo]

\* partial_computed_value.push_from(position, input, last_token_type) on what a
\* substitute_block that returned b left, for the text that ends before `to`:
\* the accumulator and the history after the push.
PushFromBlock(b, toks, to) ==
    [partial |-> PushFrom(b.partial, b.position, toks, to, b.last),
     memo |-> Pushed(b.memo, PushFrom(b.partial, b.position, toks, to, b.last))]

\* substitute_block: a fresh last_token_type and set_position_at_next_iteration,
\* then the loop.
SubstituteBlock(toks, pos, stop, position, partial_computed_value, env, memo) ==
    SubstituteBlockLoop(toks, pos, stop, position, partial_computed_value,
                        "Nothing", FALSE, env, memo)

\* A fault: a lookup that fails hands the accumulator back emptied.
CallbackClobbers(name, partial_computed_value, env, memo) ==
    IF env.mode = "substitute" THEN
        IF env.map.some /\ name \in DOMAIN env.map.v
        THEN [ok |-> TRUE, last |-> env.map.v[name].last_token_type,
              partial |-> PushVariable(partial_computed_value, env.map.v[name]),
              memo |-> Pushed(memo, PushVariable(partial_computed_value, env.map.v[name]))]
        ELSE [ok |-> FALSE, last |-> "Nothing", partial |-> Empty, memo |-> memo]
    ELSE
        IF name \in DOMAIN env.specified
        THEN LET r == SubstituteOne(name, env.specified[name], env,
                                    Some(partial_computed_value), memo)
             IN [ok |-> r.ok, last |-> r.last,
                 partial |-> IF r.ok THEN r.partial.v ELSE Empty, memo |-> r.memo]
        ELSE [ok |-> FALSE, last |-> "Nothing", partial |-> Empty, memo |-> memo]

\* The closure handed to substitute_block as substitute_one.
Callback(name, partial_computed_value, env, memo) ==
    IF env.mode = "substitute" THEN
        \* substitute's closure
        IF env.map.some /\ name \in DOMAIN env.map.v
        THEN [ok |-> TRUE, last |-> env.map.v[name].last_token_type,
              partial |-> PushVariable(partial_computed_value, env.map.v[name]),
              memo |-> Pushed(memo, PushVariable(partial_computed_value, env.map.v[name]))]
        ELSE [ok |-> FALSE, last |-> "Nothing", partial |-> partial_computed_value,
              memo |-> memo]
    ELSE
        \* substitute_one's closure
        IF name \in DOMAIN env.specified
        THEN LET r == SubstituteOne(name, env.specified[name], env,
                                    Some(partial_computed_value), memo)
             IN [ok |-> r.ok, last |-> r.last, partial |-> r.partial.v, memo |-> r.memo]
        ELSE [ok |-> FALSE, last |-> "Nothing", partial |-> partial_computed_value,
              memo |-> memo]

\* One iteration of substitute_block's loop at index pos of the block ending at stop.
SubstituteBlockLoop(toks, pos, stop, position, partial_computed_value, last_token_type, set_position_at_next_iteration, env, memo) ==
    LET before_this_token == pos
        position1 == IF set_position_at_next_iteration
                     THEN <<before_this_token,
                            IF pos < stop THEN SerializationType(toks[pos]) ELSE "Nothing">>
                     ELSE position
    IN
    IF pos >= stop
    THEN [ok |-> TRUE, last |-> last_token_type, position |-> position1,
          partial |-> partial_computed_value, memo |-> memo]
    ELSE
    LET token == toks[pos]
        close == BlockEnd(toks, pos)
        after == IF close > Len(toks) THEN close ELSE close + 1
    IN
    IF token = "var(" THEN
        LET pushed == Push(partial_computed_value,
                           SubSeq(toks, position1[1], before_this_token - 1),
                           position1[2], last_token_type)
            i == SkipWhitespace(toks, pos + 1, close)
            name == AtomFromSlice(ParseName(IdentChars(toks[i])).v)
            r == Returned(pushed, Callback(name, pushed, env, Pushed(memo, pushed)))
        IN
        IF r.ok THEN
            \* Skip over the fallback
            SubstituteBlockLoop(toks, after, stop, position1, r.partial, r.last, TRUE,
                                env, r.memo)
        ELSE
            LET j == SkipWhitespace(toks, i + 1, close) IN
            \* try!(input.expect_comma())
            IF j >= close \/ toks[j] # "," THEN BlockErr(position1, r.partial, r.memo)
            ELSE
            LET fallback_position == FallbackPosition(toks, j)
                f == SubstituteBlock(toks, j + 1, close, fallback_position, r.partial,
                                     env, r.memo)
            IN
            IF ~f.ok THEN BlockErr(position1, f.partial, f.memo)
            ELSE SubstituteBlockLoop(toks, after, stop, position1,
                                     PushFromBlock(f, toks, close).partial, f.last, TRUE,
                                     env, PushFromBlock(f, toks, close).memo)
    ELSE IF IsOpener(token) THEN
        LET n == SubstituteBlock(toks, pos + 1, close, position1, partial_computed_value,
                                 env, memo)
        IN
        IF ~n.ok THEN n
        ELSE SubstituteBlockLoop(toks, after, stop, n.position, n.partial,
                                 SerializationType(")"), FALSE, env, n.memo)
    ELSE SubstituteBlockLoop(toks, pos + 1, stop, position1, partial_computed_value,
                             SerializationType(token), FALSE, env, memo)

\* The end of substitute_one: the computed value is pushed to the caller's
\* accumulator, when there is one, and inserted in computed_values_map.
SubstituteOneOk(name, computed_value, partial_computed_value, memo, depth) ==
    [ok |-> TRUE, last |-> computed_value.last_token_type,
     partial |-> IF partial_computed_value.some
                 THEN Some(PushVariable(partial_computed_value.v, computed_value))
                 ELSE partial_computed_value,
     memo |-> [(IF partial_computed_value.some
                THEN Pushed(memo, PushVariable(partial_computed_value.v, computed_value))
                ELSE memo)
                  EXCEPT !.computed_values_map = MapInsert(@, name, computed_value),
                         !.depth = depth]]

\* substitute_one; partial_computed_value is an Option<&mut ComputedValue>.
SubstituteOne(name, specified_value, env, partial_computed_value, memo) ==
    LET entered == [memo EXCEPT !.depth = @ + 1,
                                !.deepest = IF memo.depth + 1 > @ THEN memo.depth + 1 ELSE @]
        cached == MemoGet(memo, name)
    IN
    IF memo.depth >= DepthLimit THEN
        \* the chain does not end; its evaluation is abandoned here
        [ok |-> FALSE, last |-> "Nothing", partial |-> partial_computed_value,
         memo |-> [entered EXCEPT !.depth = memo.depth]]
    ELSE IF cached.some THEN
        LET computed_value == cached.v IN
        [ok |-> TRUE, last |-> computed_value.last_token_type,
         partial |-> IF partial_computed_value.some
                     THEN Some(PushVariable(partial_computed_value.v, computed_value))
                     ELSE partial_computed_value,
         memo |-> [(IF partial_computed_value.some
                    THEN Pushed(entered, PushVariable(partial_computed_value.v,
                                                      computed_value))
                    ELSE entered) EXCEPT !.depth = memo.depth]]
    ELSE IF name \in memo.invalid THEN
        [ok |-> FALSE, last |-> "Nothing", partial |-> partial_computed_value,
         memo |-> [entered EXCEPT !.depth = memo.depth]]
    ELSE
    LET has_references == specified_value.references.some
                              /\ specified_value.references.v # {}
        css == specified_value.css
        body == [entered EXCEPT !.bodies[name] = @ + 1]
        r == SubstituteBlock(css, 1, Len(css) + 1,
                             <<1, specified_value.first_token_type>>, Empty, env, body)
        inherited_value == InheritedValue(env.inherited, name)
    IN
    IF has_references THEN
        IF r.ok THEN
            SubstituteOneOk(name, PushFromBlock(r, css, Len(css) + 1).partial,
                            partial_computed_value,
                            PushFromBlock(r, css, Len(css) + 1).memo, memo.depth)
        \* Invalid at computed-value time. Use the inherited value.
        ELSE IF inherited_value.some THEN
            SubstituteOneOk(name, inherited_value.v, partial_computed_value, r.memo,
                            memo.depth)
        ELSE
            [ok |-> FALSE, last |-> "Nothing", partial |-> partial_computed_value,
             memo |-> [r.memo EXCEPT !.invalid = @ \cup {name}, !.depth = memo.depth]]
    ELSE
        \* The specified value contains no var() reference
        SubstituteOneOk(name,
                        ComputedValue(css, specified_value.first_token_type,
                                      specified_value.last_token_type),
                        partial_computed_value, body, memo.depth)

\* A fault: the text after the last var() function is not pushed.
SubstituteFnNoTrailingPush(input_text, first_token_type, computed_map) ==
    LET r == SubstituteBlock(input_text, 1, Len(input_text) + 1, <<1, first_token_type>>,
                             Empty, EnvSubstitute(computed_map), Memo(EmptyMap, {}))
    IN
    IF r.ok THEN [ok |-> TRUE, css |-> r.partial.css] ELSE [ok |-> FALSE, css |-> <<>>]

\* substitute: Result<String, ()>
SubstituteFn(input_text, first_token_type, computed_map) ==
    LET r == SubstituteBlock(input_text, 1, Len(input_text) + 1, <<1, first_token_type>>,
                             Empty, EnvSubstitute(computed_map), Memo(EmptyMap, {}))
    IN
    IF r.ok
    THEN [ok |-> TRUE,
          css |-> PushFrom(r.partial, r.position, input_text, Len(input_text) + 1,
                           r.last).css]
    ELSE [ok |-> FALSE, css |-> <<>>]

\* History: what the pushes and the failed callbacks of a call of substitute
\* left, its substitute_block having returned b.
NotedAfter(b, input_text) ==
    IF b.ok THEN PushFromBlock(b, input_text, Len(input_text) + 1).memo.noted
    ELSE b.memo.noted

SubstituteNoted(input_text, first_token_type, computed_map) ==
    NotedAfter(SubstituteBlock(input_text, 1, Len(input_text) + 1, <<1, first_token_type>>,
                               Empty, EnvSubstitute(computed_map), Memo(EmptyMap, {})),
               input_text)

-----------------------------------------------------------------------------
(* cascade *)

\* DeclaredValue<SpecifiedValue>
DeclaredValue(specified_value) == [kind |-> "Value", v |-> specified_value]
Initial == [kind |-> "Initial", v |-> SpecifiedValue(<<>>, "Nothing", "Nothing", {})]
Inherit == [kind |-> "Inherit", v |-> SpecifiedValue(<<>>, "Nothing", "Nothing", {})]

\* A fault: the map starts empty whatever the parent has.
SeedFromNothing(inherited_map) == EmptyMap

\* The map cascade starts from when custom_properties is None.
SeedFromInherited(inherited_map) ==
    IF inherited_map.some
    THEN [key \in DOMAIN inherited_map.v |->
             BorrowedSpecifiedValue(inherited_map.v[key].css,
                                    inherited_map.v[key].first_token_type,
                                    inherited_map.v[key].last_token_type,
                                    NoReferences)]
    ELSE EmptyMap

\* A fault: a declaration is applied whether or not the name was seen.
CascadeFnLastWins(props, inherited_map, seen_names, name, specified_value) ==
    LET map == IF props.some THEN props.v ELSE SeedFromInherited(inherited_map) IN
    [custom_properties |->
        Some(CASE specified_value.kind = "Value" ->
                    MapInsert(map, name,
                              BorrowedSpecifiedValue(
                                  specified_value.v.css,
                                  specified_value.v.first_token_type,
                                  specified_value.v.last_token_type,
                                  Some(specified_value.v.references)))
               [] specified_value.kind = "Initial" -> MapRemove(map, {name})
               [] OTHER -> map),
     seen |-> seen_names \cup {name}]

\* A fault: Initial is a no-op, like Inherit.
CascadeFnInitialKeeps(props, inherited_map, seen_names, name, specified_value) ==
    LET was_not_already_present == name \notin seen_names
        map == IF props.some THEN props.v ELSE SeedFromInherited(inherited_map)
    IN
    IF was_not_already_present
    THEN [custom_properties |->
             Some(CASE specified_value.kind = "Value" ->
                         MapInsert(map, name,
                                   BorrowedSpecifiedValue(
                                       specified_value.v.css,
                                       specified_value.v.first_token_type,
                                       specified_value.v.last_token_type,
                                       Some(specified_value.v.references)))
                    [] OTHER -> map),
          seen |-> seen_names \cup {name}]
    ELSE [custom_properties |-> props, seen |-> seen_names]

\* cascade: the custom_properties and seen it leaves.
CascadeFn(props, inherited_map, seen_names, name, specified_value) ==
    LET was_not_already_present == name \notin seen_names
        map == IF props.some THEN props.v ELSE SeedFromInherited(inherited_map)
    IN
    IF was_not_already_present
    THEN [custom_properties |->
             Some(CASE specified_value.kind = "Value" ->
                         MapInsert(map, name,
                                   BorrowedSpecifiedValue(
                                       specified_value.v.css,
                                       specified_value.v.first_token_type,
                                       specified_value.v.last_token_type,
                                       Some(specified_value.v.references)))
                    [] specified_value.kind = "Initial" -> MapRemove(map, {name})
                    [] OTHER -> map),
          seen |-> seen_names \cup {name}]
    ELSE [custom_properties |-> props, seen |-> seen_names]

-----------------------------------------------------------------------------
(* remove_cycles *)

\* A fault: the top of the stack is not searched.
StackPositionBelowTop(stk, next) ==
    IF \E i \in 1..(Len(stk) - 1) : stk[i] = next
    THEN CHOOSE i \in 1..(Len(stk) - 1) : stk[i] = next /\ \A j \in 1..(i - 1) : stk[j] # next
    ELSE 0

\* stack.iter().position(|&x| x == next), counted from 1; 0 when absent.
StackPosition(stk, next) ==
    IF \E i \in 1..Len(stk) : stk[i] = next
    THEN CHOOSE i \in 1..Len(stk) : stk[i] = next /\ \A j \in 1..(i - 1) : stk[j] # next
    ELSE 0

\* A fault: the slice starts one entry late.
InCycleFromNext(stk, position) == {stk[i] : i \in (position + 1)..Len(stk)}

\* A fault: the whole stack is taken for the cycle.
InCycleWholeStack(stk, position) == {stk[i] : i \in 1..Len(stk)}

\* &stack[position..]
InCycle(stk, position) == {stk[i] : i \in position..Len(stk)}

\* The entry of walk: visited.insert(name), and stack.push(name) when the map has
\* the name with Some(references).
WalkEnter(map, name, st) ==
    IF name \in st.visited THEN st
    ELSE IF name \in DOMAIN map /\ map[name].references.some
    THEN [visited |-> st.visited \cup {name},
          stack |-> Append(st.stack, name),
          frames |-> Append(st.frames, map[name].references.v)]
    ELSE [visited |-> st.visited \cup {name}, stack |-> st.stack, frames |-> st.frames]

\* A fault: the names of to_remove stay in the map.
RemoveNone(map, names) == map

\* for name in &to_remove { map.remove(name) }
RemoveAll(map, names) == MapRemove(map, names)

-----------------------------------------------------------------------------
(* Bounds and inputs *)

\* How many cascade calls are made for the element.
MaxCalls == 3

\* How many var() functions a declared value holds.
MaxRefs == 2

NameSeq == <<"a", "b", "c">>

Var(name) == <<"var(", VarIdent(name), ")">>

VarWithFallback(name, fallback) == <<"var(", VarIdent(name), ",">> \o fallback \o <<")">>

\* var(--n) for each name of the set, in the order of NameSeq.
RECURSIVE VarsOf(_, _)
VarsOf(names, i) ==
    IF i > Len(NameSeq) THEN <<>>
    ELSE (IF NameSeq[i] \in names THEN Var(NameSeq[i]) ELSE <<>>) \o VarsOf(names, i + 1)

\* The declaration values of the element: plain values, a var() with a fallback,
\* and up to MaxRefs adjacent var() functions.
ValueTexts ==
    {<<"1">>, <<"em">>}
        \cup {VarWithFallback(n, <<"1">>) : n \in Names}
        \cup {VarsOf(S, 1) : S \in {T \in SUBSET Names : T # {} /\ Cardinality(T) <= MaxRefs}}

SpecifiedValues == {Parse(t).v : t \in {u \in ValueTexts : Parse(u).ok}}

DeclaredValues == {DeclaredValue(v) : v \in SpecifiedValues} \cup {Initial, Inherit}

\* The parent's computed maps.
InheritedMaps ==
    {None,
     Some([b |-> ComputedValue(<<"em">>, "Ident", "Ident")]),
     Some([a |-> ComputedValue(<<"1">>, "Number", "Number"),
           b |-> ComputedValue(<<"em">>, "Ident", "Ident")])}

NoResult == [ok |-> FALSE, css |-> <<>>]

\* parse and parse_name have not returned.
NoParse == [ok |-> FALSE, v |-> SpecifiedValue(<<>>, "Nothing", "Nothing", {})]
NoName == [ok |-> FALSE, v |-> <<>>]

-----------------------------------------------------------------------------
(* The cascade of one element: cascade calls, then finish_cascade *)

Init ==
    /\ pc = "cascade"
    /\ inherited \in InheritedMaps
    /\ custom_properties = None
    /\ seen = {}
    /\ calls = 0
    /\ first_decl = EmptyMap
    /\ specified0 = None
    /\ rc_keys = {}
    /\ stack = <<>>
    /\ frames = <<>>
    /\ visited = {}
    /\ to_remove = {}
    /\ sub_keys = {}
    /\ computed_values_map = EmptyMap
    /\ invalid = {}
    /\ bodies = NoBodies
    /\ deepest = 0
    /\ noted = NoNotes
    /\ result = None
    /\ s_input = <<>>
    /\ s_first = "Nothing"
    /\ s_map = None
    /\ s_result = NoResult
    /\ p_input = <<>>
    /\ p_result = NoParse
    /\ n_input = <<>>
    /\ n_result = NoName

rc_vars == <<rc_keys, stack, frames, visited, to_remove>>
sub_vars == <<sub_keys, computed_values_map, invalid, bodies, deepest, noted>>
p_vars == <<p_input, p_result, n_input, n_result>>
s_vars == <<s_input, s_first, s_map, s_result>>
cascade_vars == <<seen, calls, first_decl>>

\* One call of cascade.
Cascade ==
    /\ pc = "cascade"
    /\ calls < MaxCalls
    /\ \E name \in Names, specified_value \in DeclaredValues :
          LET r == CascadeFn(custom_properties, inherited, seen, name, specified_value) IN
          /\ custom_properties' = r.custom_properties
          /\ seen' = r.seen
          /\ first_decl' = IF name \in DOMAIN first_decl THEN first_decl
                           ELSE MapInsert(first_decl, name, specified_value)
    /\ calls' = calls + 1
    /\ UNCHANGED <<pc, inherited, specified0, rc_vars, sub_vars, result, s_vars, p_vars>>

\* A fault: finish_cascade builds a map even when the specified map is absent.
FinishCascadeAlwaysBuilds ==
    /\ pc = "cascade"
    /\ specified0' = custom_properties
    /\ pc' = "remove_cycles"
    /\ rc_keys' = DOMAIN custom_properties.v
    /\ result' = result
    /\ UNCHANGED <<inherited, custom_properties, cascade_vars, stack, frames, visited,
                   to_remove, sub_vars, s_vars, p_vars>>

\* finish_cascade, up to the call of remove_cycles (or the return of inherited).
FinishCascade ==
    /\ pc = "cascade"
    /\ specified0' = custom_properties
    /\ IF custom_properties.some
       THEN /\ pc' = "remove_cycles"
            /\ rc_keys' = DOMAIN custom_properties.v
            /\ result' = result
       ELSE /\ pc' = "done"
            /\ rc_keys' = rc_keys
            /\ result' = inherited
    /\ UNCHANGED <<inherited, custom_properties, cascade_vars, stack, frames, visited,
                   to_remove, sub_vars, s_vars, p_vars>>

\* remove_cycles: `for name in map.keys()` takes its next key and calls walk.
RcNextKey ==
    /\ pc = "remove_cycles"
    /\ stack = <<>>
    /\ \E name \in rc_keys :
          LET st == WalkEnter(custom_properties.v, name,
                              [visited |-> visited, stack |-> stack, frames |-> frames]) IN
          /\ rc_keys' = rc_keys \ {name}
          /\ visited' = st.visited
          /\ stack' = st.stack
          /\ frames' = st.frames
    /\ UNCHANGED <<pc, inherited, custom_properties, cascade_vars, specified0, to_remove,
                   sub_vars, result, s_vars, p_vars>>

\* walk: `for next in references` takes its next reference.
RcNextRef ==
    /\ pc = "remove_cycles"
    /\ stack # <<>>
    /\ \E next \in frames[Len(frames)] :
          LET position == StackPosition(stack, next)
              rest == [frames EXCEPT ![Len(frames)] = @ \ {next}]
              st == WalkEnter(custom_properties.v, next,
                              [visited |-> visited, stack |-> stack, frames |-> rest])
          IN
          IF position > 0
          THEN \* Found a cycle
               /\ to_remove' = to_remove \cup InCycle(stack, position)
               /\ frames' = rest
               /\ UNCHANGED <<visited, stack>>
          ELSE /\ visited' = st.visited
               /\ stack' = st.stack
               /\ frames' = st.frames
               /\ UNCHANGED to_remove
    /\ UNCHANGED <<pc, inherited, custom_properties, cascade_vars, specified0, rc_keys,
                   sub_vars, result, s_vars, p_vars>>

\* walk: the references are exhausted, stack.pop() and return.
RcPop ==
    /\ pc = "remove_cycles"
    /\ stack # <<>>
    /\ frames[Len(frames)] = {}
    /\ stack' = SubSeq(stack, 1, Len(stack) - 1)
    /\ frames' = SubSeq(frames, 1, Len(frames) - 1)
    /\ UNCHANGED <<pc, inherited, custom_properties, cascade_vars, specified0, rc_keys,
                   visited, to_remove, sub_vars, result, s_vars, p_vars>>

\* remove_cycles: the keys are exhausted, remove to_remove from the map and return;
\* finish_cascade goes on to substitute_all.
RcReturn ==
    /\ pc = "remove_cycles"
    /\ stack = <<>>
    /\ rc_keys = {}
    /\ custom_properties' = Some(RemoveAll(custom_properties.v, to_remove))
    /\ pc' = "substitute_all"
    /\ sub_keys' = DOMAIN custom_properties'.v
    /\ computed_values_map' = EmptyMap
    /\ invalid' = {}
    /\ bodies' = NoBodies
    /\ deepest' = 0
    /\ noted' = NoNotes
    /\ UNCHANGED <<inherited, cascade_vars, specified0, rc_vars, result, s_vars, p_vars>>

\* substitute_all: `for (&name, value) in &specified_values_map` takes its next
\* entry and calls substitute_one.
SubstituteAllNext ==
    /\ pc = "substitute_all"
    /\ \E name \in sub_keys :
          LET r == SubstituteOne(name, custom_properties.v[name],
                                 EnvAll(custom_properties.v, inherited), NoPartial,
                                 [Memo(computed_values_map, invalid)
                                      EXCEPT !.bodies = bodies, !.deepest = deepest,
                                             !.noted = noted]) IN
          /\ sub_keys' = sub_keys \ {name}
          /\ computed_values_map' = r.memo.computed_values_map
          /\ invalid' = r.memo.invalid
          /\ bodies' = r.memo.bodies
          /\ deepest' = r.memo.deepest
          /\ noted' = r.memo.noted
    /\ UNCHANGED <<pc, inherited, custom_properties, cascade_vars, specified0, rc_vars,
                   result, s_vars, p_vars>>

\* substitute_all returns computed_values_map and finish_cascade wraps it.
SubstituteAllReturn ==
    /\ pc = "substitute_all"
    /\ sub_keys = {}
    /\ result' = Some(computed_values_map)
    /\ pc' = "done"
    /\ UNCHANGED <<inherited, custom_properties, cascade_vars, specified0, rc_vars,
                   sub_vars, s_vars, p_vars>>

Next ==
    \/ Cascade
    \/ FinishCascade
    \/ RcNextKey
    \/ RcNextRef
    \/ RcPop
    \/ RcReturn
    \/ SubstituteAllNext
    \/ SubstituteAllReturn

Spec == Init /\ [][Next]_vars

-----------------------------------------------------------------------------
(* substitute over the values of non-custom properties *)

\* How many items (a token, a var() function or a block) an input text holds.
MaxItems == 2

\* No two adjacent tokens of the text would be read as other tokens when written
\* one after the other: the text is what the tokenizer yields for its own cssText.
WellTokenized(toks) ==
    \A i \in 1..(Len(toks) - 1) :
        ~NeedsSeparatorWhenBefore(SerializationType(toks[i]), SerializationType(toks[i + 1]))

SubstituteItems ==
    {<<"1">>, <<"em">>, <<"+">>, <<" ">>}
        \cup {Var(n) : n \in {"a", "b", "c", "x"}}
        \cup {VarWithFallback(n, f) : n \in {"a", "x"},
                                      f \in {<<"1">>, <<" ", "red">>, Var("a"), Var("b"),
                                             Var("x")}}
        \cup {<<"(">> \o Var("a") \o <<")">>, <<"(", "1", ")">>}

RECURSIVE ItemTexts(_)
ItemTexts(n) ==
    IF n = 0 THEN {<<>>}
    ELSE {t \o i : t \in ItemTexts(n - 1), i \in SubstituteItems \cup {<<>>}}

\* Scenario S4 and scenario S3 of the specification.
S4Input == <<"x", ":", " ", "var(", "--a", ")", "var(", "--b", ")", ";">>
S3Input == <<"color", ":", " ", "var(", "--x", ",", " ", "red", ")", ";">>

\* The texts substitute is called with: they passed parse_declaration_value.
SubstituteInputs ==
    {t \in ItemTexts(MaxItems) \cup {S4Input, S3Input} :
        t # <<>> /\ WellTokenized(t) /\ ParseDeclarationValue(t, 1, Len(t) + 1, Some({})).ok}

\* The computed maps finish_cascade returns for `--a: 1; --b: em; --c: +`, for
\* `--a: 1; --b: em`, and for `--a: var(--b); --b: 1; --c: +`, where --a keeps the
\* first token type of its specified value (that of the var( token).
ComputedABC ==
    [a |-> ComputedValue(<<"1">>, "Number", "Number"),
     b |-> ComputedValue(<<"em">>, "Ident", "Ident"),
     c |-> ComputedValue(<<"+">>, "DelimDotOrPlus", "DelimDotOrPlus")]

ComputedAB ==
    [a |-> ComputedValue(<<"1">>, "Number", "Number"),
     b |-> ComputedValue(<<"em">>, "Ident", "Ident")]

ComputedVarFirst ==
    [a |-> ComputedValue(<<"1">>, "Function", "Number"),
     b |-> ComputedValue(<<"1">>, "Number", "Number"),
     c |-> ComputedValue(<<"+">>, "DelimDotOrPlus", "DelimDotOrPlus")]

\* The first_token_type substitute is called with: the one parse recorded for the
\* text, or another one.
FirstTokenTypes(t) ==
    {ParseDeclarationValue(t, 1, Len(t) + 1, Some({})).first, "Ident", "Nothing"}

ComputedMaps ==
    {None, Some(EmptyMap), Some(ComputedABC), Some(ComputedAB), Some(ComputedVarFirst)}

InitSubstitute ==
    /\ pc = "substitute"
    /\ s_input \in SubstituteInputs
    /\ s_first \in FirstTokenTypes(s_input)
    /\ s_map \in ComputedMaps
    /\ s_result = NoResult
    /\ inherited = None
    /\ custom_properties = None
    /\ seen = {}
    /\ calls = 0
    /\ first_decl = EmptyMap
    /\ specified0 = None
    /\ rc_keys = {}
    /\ stack = <<>>
    /\ frames = <<>>
    /\ visited = {}
    /\ to_remove = {}
    /\ sub_keys = {}
    /\ computed_values_map = EmptyMap
    /\ invalid = {}
    /\ bodies = NoBodies
    /\ deepest = 0
    /\ noted = NoNotes
    /\ result = None
    /\ p_input = <<>>
    /\ p_result = NoParse
    /\ n_input = <<>>
    /\ n_result = NoName

\* One call of substitute.
Substitute ==
    /\ pc = "substitute"
    /\ s_result' = SubstituteFn(s_input, s_first, s_map)
    /\ noted' = SubstituteNoted(s_input, s_first, s_map)
    /\ pc' = "substituted"
    /\ UNCHANGED <<inherited, custom_properties, cascade_vars, specified0, rc_vars,
                   sub_keys, computed_values_map, invalid, bodies, deepest, result,
                   s_input, s_first, s_map, p_vars>>

NextSubstitute == Substitute

SpecSubstitute == InitSubstitute /\ [][NextSubstitute]_vars

-----------------------------------------------------------------------------
(* parse over declaration values, parse_name over strings *)

\* How many items (a token, a var() function or a block) a declaration value holds.
MaxParseItems == 2

\* How many characters a string handed to parse_name holds.
MaxNameLen == 4

ParseItems ==
    {<<"1">>, <<"em">>, <<" ">>, <<"/**/">>, <<"bad-url">>, <<"bad-string">>,
     <<")">>, <<"]">>, <<"}">>, <<"!">>, <<";">>}
        \cup {Var(n) : n \in {"a", "b"}}
        \cup {<<"var(", "em", ")">>, <<"var(", "1", ")">>, <<"var(", ")">>}
        \cup {VarWithFallback("a", f) :
                 f \in {<<>>, <<" ">>, <<"/**/">>, <<"1">>, <<"bad-url">>, <<"]">>,
                        <<"1", ";", "1">>, Var("b"), VarWithFallback("b", Var("c")),
                        <<"(">> \o Var("c") \o <<")">>}}
        \cup {<<"var(", "--a">> \o f \o <<")">> :
                 f \in {<<"1">>, <<" ", "1">>, <<"]">>, <<"bad-url">>, <<"1", "1">>,
                        Var("b"), <<"var(", "em", ")">>}}
        \cup {<<"(">> \o f \o <<")">> :
                 f \in {<<>>, <<"1">>, <<"!">>, <<"]">>, <<"bad-string">>, Var("b"),
                        VarWithFallback("b", Var("c"))}}

RECURSIVE ParseItemTexts(_)
ParseItemTexts(n) ==
    IF n = 0 THEN {<<>>}
    ELSE {t \o i : t \in ParseItemTexts(n - 1), i \in ParseItems \cup {<<>>}}

\* The texts parse is called with.
ParseInputs == ParseItemTexts(MaxParseItems)

RECURSIVE Strings(_)
Strings(n) ==
    IF n = 0 THEN {<<>>}
    ELSE Strings(n - 1) \cup {t \o <<ch>> : t \in Strings(n - 1), ch \in {"-", "a"}}

\* The strings parse_name is called with.
NameInputs == Strings(MaxNameLen)

InitParse ==
    /\ \/ /\ pc = "parse"
          /\ p_input \in ParseInputs
          /\ n_input = <<>>
       \/ /\ pc = "parse_name"
          /\ p_input = <<>>
          /\ n_input \in NameInputs
    /\ p_result = NoParse
    /\ n_result = NoName
    /\ s_input = <<>>
    /\ s_first = "Nothing"
    /\ s_map = None
    /\ s_result = NoResult
    /\ inherited = None
    /\ custom_properties = None
    /\ seen = {}
    /\ calls = 0
    /\ first_decl = EmptyMap
    /\ specified0 = None
    /\ rc_keys = {}
    /\ stack = <<>>
    /\ frames = <<>>
    /\ visited = {}
    /\ to_remove = {}
    /\ sub_keys = {}
    /\ computed_values_map = EmptyMap
    /\ invalid = {}
    /\ bodies = NoBodies
    /\ deepest = 0
    /\ noted = NoNotes
    /\ result = None

\* One call of parse.
ParseValue ==
    /\ pc = "parse"
    /\ p_result' = Parse(p_input)
    /\ pc' = "parsed"
    /\ UNCHANGED <<inherited, custom_properties, cascade_vars, specified0, rc_vars,
                   sub_vars, result, s_vars, p_input, n_input, n_result>>

\* One call of parse_name.
ParseNameCall ==
    /\ pc = "parse_name"
    /\ n_result' = ParseName(n_input)
    /\ pc' = "named"
    /\ UNCHANGED <<inherited, custom_properties, cascade_vars, specified0, rc_vars,
                   sub_vars, result, s_vars, p_input, p_result, n_input>>

NextParse ==
    \/ ParseValue
    \/ ParseNameCall

SpecParse == InitParse /\ [][NextParse]_vars

-----------------------------------------------------------------------------
(* The whole module: an element's cascade, a call of substitute, or a call of
   parse or parse_name *)

InitAll == Init \/ InitSubstitute \/ InitParse

NextAll == Next \/ NextSubstitute \/ NextParse

SpecAll == InitAll /\ [][NextAll]_vars

-----------------------------------------------------------------------------
(* The reference graph of a specified map *)

\* The names a name refers to: its references, when the map holds it with some.
Successors(map, n) ==
    IF n \in DOMAIN map /\ map[n].references.some THEN map[n].references.v ELSE {}

\* The names reachable from a set of names by following references.
RECURSIVE ReachableFrom(_, _)
ReachableFrom(map, S) ==
    LET next == S \cup UNION {Successors(map, n) : n \in S} IN
    IF next = S THEN S ELSE ReachableFrom(map, next)

\* The names on a cycle: the strongly connected components of two names or more,
\* and the self-loops.
CyclicNames(map) == {n \in DOMAIN map : n \in ReachableFrom(map, Successors(map, n))}

\* finish_cascade has called remove_cycles and it has returned.
CyclesRemoved == pc \in {"substitute_all", "done"} /\ specified0.some

-----------------------------------------------------------------------------
(* C1 *)

\* The specified map the first declarations alone decide: the inherited seed, with
\* each name's first declaration applied to it.
FirstDeclaredMap ==
    LET seed == SeedFromInherited(inherited)
        values == {n \in DOMAIN first_decl : first_decl[n].kind = "Value"}
        initials == {n \in DOMAIN first_decl : first_decl[n].kind = "Initial"}
    IN [n \in ((DOMAIN seed) \cup values) \ initials |->
           IF n \in values
           THEN BorrowedSpecifiedValue(first_decl[n].v.css,
                                       first_decl[n].v.first_token_type,
                                       first_decl[n].v.last_token_type,
                                       Some(first_decl[n].v.references))
           ELSE seed[n]]

\* C1: whatever cascade calls were made for the element, seen and the specified
\* map are those the first call of each name decides: seen is the set of names
\* called, the map is absent before any call, and afterwards it is the inherited
\* seed with each name's first declaration applied; a later call with a seen name
\* leaves no trace.
C1_FirstCallDecides ==
    /\ seen = DOMAIN first_decl
    /\ LET decided == IF calls = 0 THEN None ELSE Some(FirstDeclaredMap) IN
       IF pc = "cascade" THEN custom_properties = decided ELSE specified0 = decided

\* Three calls were made with the same name, whose first declared a value.
C1_Witness ==
    /\ pc = "cascade"
    /\ calls = 3
    /\ Cardinality(seen) = 1
    /\ \E n \in seen : n \in DOMAIN custom_properties.v

-----------------------------------------------------------------------------
(* C2, C3, C4, C5 *)

\* C2: no name on a cycle of the specified map handed to finish_cascade is a key of
\* the computed map it returns.
C2_NoCyclicKey ==
    (pc = "done" /\ specified0.some)
        => DOMAIN result.v \cap CyclicNames(specified0.v) = {}

\* C3: when remove_cycles returns, the names it removed are exactly the names on a
\* cycle of the map it was given.
C3_RemovesEveryCyclicName ==
    CyclesRemoved => to_remove = CyclicNames(specified0.v)

\* C4: when remove_cycles has returned, the references of the names left in the
\* map form no cycle.
C4_Acyclic ==
    CyclesRemoved => CyclicNames(custom_properties.v) = {}

\* remove_cycles removed names, and a name it left refers to another name it left.
C4_Witness ==
    /\ pc = "substitute_all"
    /\ to_remove # {}
    /\ \E n \in DOMAIN custom_properties.v :
          Successors(custom_properties.v, n) \cap DOMAIN custom_properties.v # {}

\* C5: every name put in to_remove is on a cycle of the map, at every step of the
\* walk, and every name of the map that is on no cycle is still in the map when
\* remove_cycles has returned.
C5_OnlyCyclicRemoved ==
    /\ specified0.some => to_remove \subseteq CyclicNames(specified0.v)
    /\ CyclesRemoved =>
          (DOMAIN specified0.v) \ CyclicNames(specified0.v) \subseteq DOMAIN custom_properties.v

\* remove_cycles removed a cycle and left a name that refers to a removed name and
\* an entry seeded from inherited.
C5_Witness ==
    /\ pc = "substitute_all"
    /\ \E n \in DOMAIN custom_properties.v :
          /\ n \notin CyclicNames(specified0.v)
          /\ Successors(specified0.v, n) \cap to_remove # {}
    /\ \E n \in DOMAIN custom_properties.v : ~custom_properties.v[n].references.some

-----------------------------------------------------------------------------
(* C6, C7 *)

\* C6: the text substitute returns reads back, token for token, as the runs it was
\* built from: no token is directly followed by one it needs a separator before.
C6_NoFusion ==
    (pc = "substituted" /\ s_result.ok) => WellTokenized(s_result.css)

\* C7: scenario S4 returns "x: 1/**/em;", with one separator.
C7_S4OneSeparator ==
    (pc = "substituted" /\ s_input = S4Input /\ s_map = Some(ComputedAB))
        => s_result = [ok |-> TRUE, css |-> <<"x", ":", " ", "1", "/**/", "em", ";">>]

-----------------------------------------------------------------------------
(* C9, C10 *)

\* The name of the var() function whose opening token is at index i.
VarName(toks, i) ==
    AtomFromSlice(ParseName(IdentChars(toks[SkipWhitespace(toks, i + 1, Len(toks) + 1)])).v)

\* The index of the comma of the var() function opened at index i, or 0 when it
\* has no fallback.
VarComma(toks, i) ==
    LET j == SkipWhitespace(toks, SkipWhitespace(toks, i + 1, Len(toks) + 1) + 1,
                            Len(toks) + 1)
    IN IF j < BlockEnd(toks, i) /\ toks[j] = "," THEN j ELSE 0

\* The resolution rule read off the text: the tokens of the block from pos to stop
\* with each var() replaced by the map's css for its name, or else by its
\* fallback resolved the same way; no result when a var() has neither.
RECURSIVE Resolve(_, _, _, _)
Resolve(toks, pos, stop, map) ==
    IF pos >= stop THEN [ok |-> TRUE, css |-> <<>>]
    ELSE
    LET close == BlockEnd(toks, pos)
        rest == Resolve(toks, IF IsOpener(toks[pos]) THEN close + 1 ELSE pos + 1, stop, map)
        name == VarName(toks, pos)
        comma == VarComma(toks, pos)
        inner == Resolve(toks, IF toks[pos] = "var(" THEN comma + 1 ELSE pos + 1, close, map)
        here == IF toks[pos] = "var("
                THEN IF map.some /\ name \in DOMAIN map.v
                     THEN [ok |-> TRUE, css |-> map.v[name].css]
                     ELSE IF comma # 0 THEN inner ELSE [ok |-> FALSE, css |-> <<>>]
                ELSE IF toks[pos] = "("
                THEN [ok |-> inner.ok, css |-> <<"(">> \o inner.css \o <<")">>]
                ELSE [ok |-> TRUE, css |-> <<toks[pos]>>]
    IN IF here.ok /\ rest.ok THEN [ok |-> TRUE, css |-> here.css \o rest.css]
       ELSE [ok |-> FALSE, css |-> <<>>]

IsNotSeparator(tok) == tok # "/**/"

\* C9: substitute returns Err exactly when the resolution rule yields no result,
\* and otherwise the tokens the rule yields, with /**/ separators between them.
C9_ResolutionRule ==
    pc = "substituted" =>
        LET r == Resolve(s_input, 1, Len(s_input) + 1, s_map) IN
        /\ s_result.ok = r.ok
        /\ r.ok => SelectSeq(s_result.css, IsNotSeparator) = r.css

\* A missing name was replaced by its fallback's var(--b), and a name of the map
\* by its css, its fallback var(--x) left aside.
C9_Witness ==
    /\ pc = "substituted"
    /\ s_input = VarWithFallback("x", Var("b")) \o VarWithFallback("a", Var("x"))
    /\ s_map = Some(ComputedAB)
    /\ s_result.ok
    /\ SelectSeq(s_result.css, IsNotSeparator) = <<"em", "1">>

\* C10 as claimed: scenario S3 returns "color: red;", one space after the colon.
C10_S3OneSpace ==
    (pc = "substituted" /\ s_input = S3Input)
        => s_result = [ok |-> TRUE, css |-> <<"color", ":", " ", "red", ";">>]

\* C10 as amended: scenario S3 returns the text with the var() function replaced
\* by all the tokens of its fallback, the whitespace after the comma included:
\* "color:  red;".
C10_S3FallbackTokens ==
    (pc = "substituted" /\ s_input = S3Input)
        => s_result = [ok |-> TRUE, css |-> <<"color", ":", " ", " ", "red", ";">>]

\* substitute was called on scenario S3 with a map that has no entry for x.
C10_Witness ==
    /\ pc = "substituted"
    /\ s_input = S3Input
    /\ s_map = Some(ComputedAB)
    /\ s_result.ok

-----------------------------------------------------------------------------
(* C8 *)

\* Whether the text of the block from pos to stop can be substituted: each var()
\* it comes to names a variable that has a value, or else has a fallback that can
\* be substituted.  A variable has a value when the map (after remove_cycles) holds
\* it and it has no var() of its own, its own text can be substituted, or the
\* inherited map has it.
RECURSIVE TextResolves(_, _, _, _, _)
RECURSIVE HasValue(_, _, _)
TextResolves(map, inherited_map, toks, pos, stop) ==
    IF pos >= stop THEN TRUE
    ELSE
    LET close == BlockEnd(toks, pos)
        comma == VarComma(toks, pos)
    IN
    IF toks[pos] = "var(" THEN
        /\ \/ HasValue(map, inherited_map, VarName(toks, pos))
           \/ comma # 0 /\ TextResolves(map, inherited_map, toks, comma + 1, close)
        /\ TextResolves(map, inherited_map, toks, close + 1, stop)
    ELSE IF toks[pos] = "(" THEN
        /\ TextResolves(map, inherited_map, toks, pos + 1, close)
        /\ TextResolves(map, inherited_map, toks, close + 1, stop)
    ELSE TextResolves(map, inherited_map, toks, pos + 1, stop)

HasValue(map, inherited_map, n) ==
    /\ n \in DOMAIN map
    /\ \/ Successors(map, n) = {}
       \/ TextResolves(map, inherited_map, map[n].css, 1, Len(map[n].css) + 1)
       \/ inherited_map.some /\ n \in DOMAIN inherited_map.v

\* The substitution of a name of the map fails.
SubstitutionFails(map, inherited_map, n) ==
    /\ n \in DOMAIN map
    /\ Successors(map, n) # {}
    /\ ~TextResolves(map, inherited_map, map[n].css, 1, Len(map[n].css) + 1)

\* The names of the var() functions without fallback of the block from pos to
\* stop, outside any fallback.
RECURSIVE ReferencesWithoutFallback(_, _, _)
ReferencesWithoutFallback(toks, pos, stop) ==
    IF pos >= stop THEN {}
    ELSE IF toks[pos] = "var("
    THEN (IF VarComma(toks, pos) = 0 THEN {VarName(toks, pos)} ELSE {})
             \cup ReferencesWithoutFallback(toks, BlockEnd(toks, pos) + 1, stop)
    ELSE ReferencesWithoutFallback(toks, pos + 1, stop)

\* The recovery of a name whose substitution failed: the inherited computed value
\* when the inherited map has the name, else the name in invalid and not in the
\* returned map.
Recovered(n) ==
    IF inherited.some /\ n \in DOMAIN inherited.v
    THEN n \in DOMAIN result.v /\ result.v[n] = inherited.v[n]
    ELSE n \in invalid /\ n \notin DOMAIN result.v

Finished == pc = "done" /\ specified0.some

\* C8 as claimed: every name whose substitution fails is recovered, and so is
\* every variable that references a failed name without fallback.
C8_RecoveryOfEveryReferrer ==
    Finished =>
        \A n \in DOMAIN custom_properties.v :
            SubstitutionFails(custom_properties.v, inherited, n) =>
                /\ Recovered(n)
                /\ \A m \in DOMAIN custom_properties.v :
                      n \in ReferencesWithoutFallback(custom_properties.v[m].css, 1,
                                                      Len(custom_properties.v[m].css) + 1)
                          => Recovered(m)

\* C8 as amended: every name whose substitution fails is recovered, and so is
\* every variable that references without fallback a failed name that the
\* inherited map does not have.
C8_Recovery ==
    Finished =>
        \A n \in DOMAIN custom_properties.v :
            SubstitutionFails(custom_properties.v, inherited, n) =>
                /\ Recovered(n)
                /\ (~(inherited.some /\ n \in DOMAIN inherited.v)) =>
                      \A m \in DOMAIN custom_properties.v :
                          n \in ReferencesWithoutFallback(
                                    custom_properties.v[m].css, 1,
                                    Len(custom_properties.v[m].css) + 1)
                              => Recovered(m)

\* finish_cascade returned a map after a substitution failed for a name the
\* inherited map has and for a name it does not have, the second referenced
\* without fallback by the first.
C8_Witness ==
    /\ Finished
    /\ \E n, m \in DOMAIN custom_properties.v :
          /\ SubstitutionFails(custom_properties.v, inherited, n)
          /\ n \notin DOMAIN inherited.v
          /\ n \in invalid
          /\ m \in DOMAIN inherited.v
          /\ n \in ReferencesWithoutFallback(custom_properties.v[m].css, 1,
                                             Len(custom_properties.v[m].css) + 1)
          /\ result.v[m] = inherited.v[m]

-----------------------------------------------------------------------------
(* C11, C12 *)

\* The names whose first declaration at the element is Initial.
DeclaredInitial == {n \in DOMAIN first_decl : first_decl[n].kind = "Initial"}

\* C11: a name whose first declaration is Initial is no key of the map
\* finish_cascade returns, and is never computed nor looked up in inherited on the
\* way: the variables that reference it find it missing.
C11_InitialRemoves ==
    /\ \A n \in DeclaredInitial :
          /\ n \notin DOMAIN computed_values_map
          /\ custom_properties.some => n \notin DOMAIN custom_properties.v
    /\ Finished => DOMAIN result.v \cap DeclaredInitial = {}

\* finish_cascade returned for an element that declares Initial a name the
\* inherited map has, and that has another variable referencing it, with a
\* fallback: the name is absent and the other variable took its fallback.
C11_Witness ==
    /\ Finished
    /\ \E n \in DeclaredInitial, m \in DOMAIN result.v :
          /\ inherited.some /\ n \in DOMAIN inherited.v
          /\ n \notin DOMAIN result.v
          /\ specified0.v[m].css = VarWithFallback(n, <<"1">>)
          /\ result.v[m].css = <<"1">>

\* C12: when finish_cascade returns for an element without cascade call, what it
\* returns is the inherited map, and neither remove_cycles nor substitute_all has
\* run: their state is as it was at the start.
C12_InheritSeeding ==
    /\ calls = 0 => ~custom_properties.some
    /\ (pc # "cascade" /\ ~specified0.some) =>
          /\ pc = "done"
          /\ result = inherited
          /\ visited = {} /\ to_remove = {} /\ stack = <<>>
          /\ computed_values_map = EmptyMap /\ invalid = {}

\* finish_cascade returned without any cascade call, under a parent that has
\* custom properties.
C12_Witness ==
    /\ pc = "done"
    /\ calls = 0
    /\ inherited.some
    /\ DOMAIN result.v = {"a", "b"}

-----------------------------------------------------------------------------
(* C13 *)

\* C13: in every step of substitute_all, each name's body has run at most once so
\* far, exactly once for the names recorded in computed_values_map or invalid and
\* never for the others, and the entries computed_values_map had before the step
\* are still there, unchanged, as are the names of invalid.
C13_Memoized ==
    [][/\ \A n \in AllNames :
             bodies'[n] = IF n \in DOMAIN computed_values_map' \cup invalid' THEN 1 ELSE 0
       /\ DOMAIN computed_values_map' \cap invalid' = {}
       /\ pc = "substitute_all" =>
             /\ \A n \in DOMAIN computed_values_map :
                   /\ n \in DOMAIN computed_values_map'
                   /\ computed_values_map'[n] = computed_values_map[n]
             /\ invalid \subseteq invalid']_vars

\* finish_cascade returned a map with a name that two other variables of the
\* element reference, all three computed.
C13_Witness ==
    /\ Finished
    /\ \E n, m1, m2 \in DOMAIN result.v :
          /\ m1 # m2 /\ m1 # n /\ m2 # n
          /\ n \in Successors(custom_properties.v, m1)
          /\ n \in Successors(custom_properties.v, m2)
          /\ bodies[n] = 1

-----------------------------------------------------------------------------
(* C18 *)

\* C18: no chain of nested substitute_one calls is longer than the number of names
\* of the map remove_cycles left, so none is abandoned as endless, and each step
\* of substitute_all's loop leaves fewer keys to iterate, until none is left and
\* finish_cascade returns.
C18_Terminates ==
    /\ [](/\ deepest <= Cardinality(DOMAIN custom_properties.v)
          /\ deepest < DepthLimit)
    /\ [][pc = "substitute_all" =>
             \/ pc' = "substitute_all" /\ sub_keys' \subseteq sub_keys /\ sub_keys' # sub_keys
             \/ pc' = "done" /\ sub_keys = {} /\ result'.some]_vars

\* finish_cascade returned after a chain of three nested substitute_one calls.
C18_Witness ==
    /\ Finished
    /\ deepest = 3
    /\ DOMAIN result.v = Names

-----------------------------------------------------------------------------
(* C14 *)

\* The text holds no var() function.
NoVarFunction(toks) == \A i \in 1..Len(toks) : toks[i] # "var("

\* C14: for a text without var() function substitute returns Ok with the text
\* itself, whatever the computed map and the first_token_type.
C14_Idempotent ==
    (pc = "substituted" /\ NoVarFunction(s_input))
        => s_result = [ok |-> TRUE, css |-> s_input]

\* substitute returned for a text without var() that holds a parenthesis block,
\* with a computed map and with a first_token_type that is not the text's own.
C14_Witness ==
    /\ pc = "substituted"
    /\ NoVarFunction(s_input)
    /\ \E i \in 1..Len(s_input) : s_input[i] = "("
    /\ s_map = Some(ComputedABC)
    /\ s_first = "Nothing"
    /\ s_result.ok

-----------------------------------------------------------------------------
(* C15, C16 *)

DashedIdents == {"--a", "--b", "--c", "--x"}

\* The declaration value of a text: its tokens before the first top-level ! or ;.
ValueOf(toks) == SubSeq(toks, 1, DelimiterIndex(toks, 1, Len(toks) + 1) - 1)

\* The first argument of the var() function opened at index i: the index of the
\* first token after the opening that is no whitespace nor comment.
FirstArgument(toks, i) == SkipWhitespace(toks, i + 1, Len(toks) + 1)

\* The names that occur as the first argument of a var() function of the text.
VarFunctionNames(toks) ==
    {AtomFromSlice(ParseName(IdentChars(toks[FirstArgument(toks, i)])).v) :
        i \in {k \in 1..Len(toks) : /\ toks[k] = "var("
                                    /\ FirstArgument(toks, k) <= Len(toks)
                                    /\ toks[FirstArgument(toks, k)] \in DashedIdents}}

\* C15: for a value parse accepts, references is the set of the names that occur
\* as first argument of a var() function of the value.
C15_ReferencesComplete ==
    (pc = "parsed" /\ p_result.ok)
        => p_result.v.references = VarFunctionNames(p_result.v.css)

\* How many blocks are open before index i of the text.
RECURSIVE OpenBefore(_, _)
OpenBefore(toks, i) ==
    IF i <= 1 THEN 0
    ELSE LET d == OpenBefore(toks, i - 1) IN
         IF IsOpener(toks[i - 1]) THEN d + 1
         ELSE IF toks[i - 1] = ")" /\ d > 0 THEN d - 1
         ELSE d

\* The value has no token (comments aside).
EmptyValue(toks) == \A i \in 1..Len(toks) : toks[i] = "/**/"

\* The value holds a bad-url or bad-string token or a closing parenthesis, bracket
\* or brace that closes no block, at any depth.
BadToken(toks) ==
    \E i \in 1..Len(toks) :
        \/ toks[i] \in {"bad-url", "bad-string", "]", "}"}
        \/ toks[i] = ")" /\ OpenBefore(toks, i) = 0

\* The value holds a var() function whose first argument is no identifier that
\* starts with --.
BadFirstArgument(toks) ==
    \E i \in 1..Len(toks) :
        /\ toks[i] = "var("
        /\ \/ FirstArgument(toks, i) > Len(toks)
           \/ toks[FirstArgument(toks, i)] \notin DashedIdents

\* The value holds a var() function with nothing between its comma and its end.
EmptyFallback(toks) ==
    \E i \in 1..Len(toks) :
        /\ toks[i] = "var("
        /\ FirstArgument(toks, i) < Len(toks)
        /\ LET j == SkipWhitespace(toks, FirstArgument(toks, i) + 1, Len(toks) + 1) IN
           /\ j < Len(toks)
           /\ toks[j] = ","
           /\ BlockEnd(toks, i) <= Len(toks)
           /\ EmptyValue(SubSeq(toks, j + 1, BlockEnd(toks, i) - 1))

\* C16: parse returns Err for a value that is empty, holds a bad token, or holds a
\* var() function with a bad first argument or an empty fallback.
C16_ParseErrors ==
    pc = "parsed" =>
        LET value == ValueOf(p_input) IN
        (EmptyValue(value) \/ BadToken(value) \/ BadFirstArgument(value)
             \/ EmptyFallback(value))
            => ~p_result.ok

-----------------------------------------------------------------------------
(* C17 *)

\* The strings that are identifiers: they start with a letter, or with a dash
\* that a letter or a dash follows.
ValidIdentifier(s) == Len(s) >= 1 /\ (s[1] = "-" => Len(s) >= 2)

Prefixed(s) == <<"-", "-">> \o s

\* C17 as claimed: for every identifier X, parse_name of -- followed by X returns
\* Ok(X), and parse_name of X returns Err.
C17_RoundTripAndBareFails ==
    pc = "named" =>
        \A X \in {s \in NameInputs : ValidIdentifier(s)} :
            /\ n_input = Prefixed(X) => n_result = [ok |-> TRUE, v |-> X]
            /\ n_input = X => ~n_result.ok

\* C17 as amended: for every identifier X, parse_name of -- followed by X returns
\* Ok(X), and parse_name of X returns Err when X does not itself start with --.
C17_RoundTrip ==
    pc = "named" =>
        \A X \in {s \in NameInputs : ValidIdentifier(s)} :
            /\ n_input = Prefixed(X) => n_result = [ok |-> TRUE, v |-> X]
            /\ (n_input = X /\ ~(Len(X) >= 2 /\ X[1] = "-" /\ X[2] = "-"))
                  => ~n_result.ok

\* parse_name returned the identifier -a for the string ---a.
C17_Witness ==
    /\ pc = "named"
    /\ n_input = <<"-", "-", "-", "a">>
    /\ n_result = [ok |-> TRUE, v |-> <<"-", "a">>]

-----------------------------------------------------------------------------
(* C19 *)

\* The names the element leaves to inheritance: no declaration, or a first
\* declaration Inherit.
LeftToInherit(n) == n \notin DOMAIN first_decl \/ first_decl[n].kind = "Inherit"

\* C19: the map finish_cascade returns holds, for every name of the inherited map
\* that the element leaves to inheritance, an entry equal to the inherited one.
C19_InheritedPassThrough ==
    (pc = "done" /\ inherited.some) =>
        \A n \in DOMAIN inherited.v :
            LeftToInherit(n) => (n \in DOMAIN result.v /\ result.v[n] = inherited.v[n])

\* finish_cascade returned for an element that declares one inherited name
\* Inherit, leaves another undeclared, and declares a third name in a cycle.
C19_Witness ==
    /\ Finished
    /\ DOMAIN inherited.v = {"a", "b"}
    /\ \E n, m \in DOMAIN inherited.v :
          /\ n \in DOMAIN first_decl /\ first_decl[n].kind = "Inherit"
          /\ m \notin DOMAIN first_decl
    /\ to_remove # {}
    /\ result = inherited

-----------------------------------------------------------------------------
(* C20 *)

\* Every cycle of the map is a simple cycle that shares no name with another: each
\* name on a cycle has one reference only that leads back to it.
DisjointSimpleCycles(map) ==
    \A n \in CyclicNames(map) :
        Cardinality({m \in Successors(map, n) : n \in ReachableFrom(map, {m})}) = 1

\* C20: when remove_cycles has returned, every name that references itself is
\* removed, and when the cycles of the map are simple and pairwise disjoint, every
\* name of every cycle is removed.
C20_SelfLoopsAndDisjointCycles ==
    CyclesRemoved =>
        /\ \A n \in DOMAIN specified0.v :
              n \in Successors(specified0.v, n)
                  => (n \in to_remove /\ n \notin DOMAIN custom_properties.v)
        /\ DisjointSimpleCycles(specified0.v) =>
              /\ CyclicNames(specified0.v) \subseteq to_remove
              /\ DOMAIN custom_properties.v \cap CyclicNames(specified0.v) = {}

\* remove_cycles removed a cycle of two names and a self-loop.
C20_Witness ==
    /\ pc = "substitute_all"
    /\ DisjointSimpleCycles(specified0.v)
    /\ \E n, m, l \in DOMAIN specified0.v :
          /\ n # m /\ l # n /\ l # m
          /\ Successors(specified0.v, n) = {m}
          /\ Successors(specified0.v, m) = {n}
          /\ Successors(specified0.v, l) = {l}
    /\ to_remove = Names
    /\ custom_properties.v = EmptyMap

-----------------------------------------------------------------------------
(* C21 *)

\* C21: no css of the map finish_cascade returns, none of the entries
\* substitute_all has computed so far, and no text substitute returns Ok holds a
\* var() function token, at any depth.
C21_NoVarSurvives ==
    /\ \A n \in DOMAIN computed_values_map : NoVarFunction(computed_values_map[n].css)
    /\ (pc = "done" /\ result.some) =>
          \A n \in DOMAIN result.v : NoVarFunction(result.v[n].css)
    /\ (pc = "substituted" /\ s_result.ok) => NoVarFunction(s_result.css)

\* finish_cascade returned a map with an entry whose specified value is two var()
\* functions, both replaced, and an entry whose specified value is a var() function
\* with a fallback.
C21_Witness ==
    /\ Finished
    /\ \E n, m \in DOMAIN result.v :
          /\ Cardinality(Successors(specified0.v, n)) = 2
          /\ Successors(specified0.v, n) \subseteq DOMAIN result.v
          /\ Len(result.v[n].css) >= 2
          /\ \E l \in Names : specified0.v[m].css = VarWithFallback(l, <<"1">>)

-----------------------------------------------------------------------------
(* C22 *)

\* C22: no callback of substitute_block that returned Err has left the caller's
\* accumulator (css, first_token_type, last_token_type) other than it was when
\* the callback was called.
C22_FailedLeavesAccumulator == ~noted.clobbered

\* finish_cascade returned after the callback failed for a name that a variable
\* references after a var() function that was replaced: it returned Err with a
\* value already in the accumulator, and the variable was found invalid.
C22_Witness ==
    /\ Finished
    /\ noted.failed
    /\ \E m \in invalid, l \in DOMAIN result.v, n \in Names \ DOMAIN result.v :
          custom_properties.v[m].css = Var(l) \o Var(n)

-----------------------------------------------------------------------------
(* C23, C24 *)

\* The first_token_type of a value is nothing exactly when its css is empty.
NothingIffEmpty(v) == (v.first_token_type = "Nothing") <=> (v.css = <<>>)

\* C23: first_token_type is nothing exactly when css is empty, for the value parse
\* returns, for every entry of computed_values_map and of the map finish_cascade
\* returns, and for the accumulator after each push of a substitution (for
\* substitute, when called with the first_token_type parse gave the text).
C23_NothingIffEmpty ==
    /\ (pc = "parsed" /\ p_result.ok) => NothingIffEmpty(p_result.v)
    /\ \A n \in DOMAIN computed_values_map : NothingIffEmpty(computed_values_map[n])
    /\ result.some => \A n \in DOMAIN result.v : NothingIffEmpty(result.v[n])
    /\ (pc = "substituted" =>
           s_first = ParseDeclarationValue(s_input, 1, Len(s_input) + 1, Some({})).first)
          => \A shape \in noted.pushed : shape[1] = shape[2]

\* The token types of a value are those of the first and the last token of its
\* own css.
TypedByOwnTokens(v) ==
    IF v.css = <<>>
    THEN v.first_token_type = "Nothing" /\ v.last_token_type = "Nothing"
    ELSE /\ v.first_token_type = SerializationType(v.css[1])
         /\ v.last_token_type = SerializationType(v.css[Len(v.css)])

\* C24: every entry of the map finish_cascade returns has the serialization type
\* of the first token of its css as first_token_type and that of its last token
\* as last_token_type.
C24_TypedByOwnTokens ==
    (pc = "done" /\ result.some) => \A n \in DOMAIN result.v : TypedByOwnTokens(result.v[n])

-----------------------------------------------------------------------------
(* C25 *)

\* The names of a set, in the order in which a sequence holds them.
RECURSIVE InOrder(_, _)
InOrder(order, S) ==
    IF order = <<>> THEN <<>>
    ELSE (IF Head(order) \in S THEN <<Head(order)>> ELSE <<>>) \o InOrder(Tail(order), S)

\* walk, with every references set iterated in the given order; st holds stack,
\* visited and to_remove.
RECURSIVE WalkIn(_, _, _, _)
RECURSIVE WalkReferencesIn(_, _, _, _)
WalkIn(order, map, name, st) ==
    IF name \in st.visited THEN st
    ELSE IF name \in DOMAIN map /\ map[name].references.some
    THEN LET pushed == [st EXCEPT !.visited = @ \cup {name}, !.stack = Append(@, name)]
             walked == WalkReferencesIn(order, map,
                                        InOrder(order, map[name].references.v), pushed)
         IN [walked EXCEPT !.stack = SubSeq(@, 1, Len(@) - 1)]
    ELSE [st EXCEPT !.visited = @ \cup {name}]

\* walk: `for next in references`, over the references left.
WalkReferencesIn(order, map, references, st) ==
    IF references = <<>> THEN st
    ELSE LET next == Head(references)
             position == StackPosition(st.stack, next)
         IN WalkReferencesIn(order, map, Tail(references),
                             IF position > 0
                             THEN [st EXCEPT !.to_remove = @ \cup InCycle(st.stack, position)]
                             ELSE WalkIn(order, map, next, st))

\* remove_cycles: `for name in map.keys()`, over the keys left.
RECURSIVE WalkKeysIn(_, _, _, _)
WalkKeysIn(order, map, keys, st) ==
    IF keys = <<>> THEN st
    ELSE WalkKeysIn(order, map, Tail(keys), WalkIn(order, map, Head(keys), st))

\* remove_cycles with the keys and every references set iterated in the given
\* order: the map it leaves.
RemoveCyclesIn(order, map) ==
    RemoveAll(map, WalkKeysIn(order, map, InOrder(order, DOMAIN map),
                              [stack |-> <<>>, visited |-> {}, to_remove |-> {}]).to_remove)

\* substitute_all: `for (&name, value) in &specified_values_map`, over the keys
\* left.
RECURSIVE SubstituteKeysIn(_, _, _, _)
SubstituteKeysIn(keys, map, inherited_map, memo) ==
    IF keys = <<>> THEN memo
    ELSE SubstituteKeysIn(Tail(keys), map, inherited_map,
                          SubstituteOne(Head(keys), map[Head(keys)],
                                        EnvAll(map, inherited_map), NoPartial, memo).memo)

\* substitute_all with the map iterated in the given order.
SubstituteAllIn(order, map, inherited_map) ==
    SubstituteKeysIn(InOrder(order, DOMAIN map), map, inherited_map,
                     Memo(EmptyMap, {})).computed_values_map

\* finish_cascade with every map and set iterated in the given order.
FinishCascadeIn(order, specified_values_map, inherited_map) ==
    IF specified_values_map.some
    THEN Some(SubstituteAllIn(order, RemoveCyclesIn(order, specified_values_map.v),
                              inherited_map))
    ELSE inherited_map

\* Two maps have the same keys and the same css for each.
SameCss(m1, m2) ==
    /\ m1.some = m2.some
    /\ DOMAIN m1.v = DOMAIN m2.v
    /\ \A n \in DOMAIN m1.v : m1.v[n].css = m2.v[n].css

\* C25: whatever the order in which remove_cycles and substitute_all iterated the
\* map and walk iterated the references sets, the map finish_cascade returns has
\* the keys and the css of the map it returns when all are iterated in the order
\* a, b, c.
C25_Deterministic ==
    pc = "done" => SameCss(result, FinishCascadeIn(NameSeq, specified0, inherited))

\* The part of C25 that is substitute_all's: for the map remove_cycles left, the
\* map returned is the one substitute_all returns when iterating in the order
\* a, b, c.
SubstituteAllOrderFree ==
    Finished => result = Some(SubstituteAllIn(NameSeq, custom_properties.v, inherited))

=============================================================================
